---- MODULE Spec2Model ----
(***************************************************************************)
(* Model of the Gamepad device handle (src/src/Gamepad.cpp): the           *)
(* open/read/close/reconnect state machine, its status classifier and the  *)
(* interplay of the foreground caller with the background reconnection     *)
(* thread.  The foreground caller and the reconnection thread are two      *)
(* processes; every std::lock_guard scope on fdMutex is one atomic step.   *)
(***************************************************************************)
EXTENDS Integers, FiniteSets, Sequences, TLC

\* ---------------------------------------------------------------- bounds
\* OS descriptor numbers are 0..MaxFd
MaxFd == 2
\* saturation value of the lateOpens counter
MaxLateOpens == 3

\* ------------------------------------------------------------- constants
ERROR == -3
IO_ERROR == -2
INVALID_FILE_ERROR == -1
OK == 0
NoFd == -1
NumAxes == 6
NumButtons == 15
MaxWireNumber == 255

GamepadStatus == {ERROR, IO_ERROR, INVALID_FILE_ERROR, OK}

Paths == {"js0", "js1"}
Descriptors == 0..MaxFd
Closed == "closed"

\* errno values of the calling thread ("0": no error recorded)
Errnos == {"0", "EAGAIN", "EBADF", "EINVAL", "EIO", "ENODEV", "ENOENT", "EMFILE"}
\* error codes read() can report on an open descriptor
ReadErrnos == {"EAGAIN", "EINVAL", "EIO", "ENODEV"}

\* JSEvent records the model feeds: type 1 button, 2 axis, 3 other
EventTypes == {1, 2, 3}
EventNumbers == {0, NumAxes, MaxWireNumber}
EventValues == {1, -200}
JSEvent == [type : EventTypes, number : EventNumbers, value : EventValues]

VARIABLES
    fd,             \* Gamepad::fd
    reconnecting,   \* Gamepad::reconnecting
    joinable,       \* Gamepad::reconnectionThread.joinable()
    status,         \* Gamepad::status
    path,           \* Gamepad::path
    axes,           \* Gamepad::axes
    buttons,        \* Gamepad::buttons
    errno,          \* errno of the foreground thread
    op,             \* public call in progress, or the last one returned
    pc,             \* position of the foreground thread
    arg,            \* path argument of the call in progress
    newFd,          \* safeOpen's local newFd (foreground)
    ret,            \* value returned by the last openStream/closeStream
    bg,             \* position of the reconnection thread
    bgPath,         \* path captured by the thread's lambda
    bgNewFd,        \* safeOpen's local newFd (reconnection thread)
    osTable,        \* OS descriptor table: descriptor -> path or Closed
    available,      \* paths that open() can open right now
    faults,         \* faults that have happened so far
    drainEnd,       \* outcome of the read that ended the drain loop
    cancelled,      \* a foreground call cleared reconnecting under the current thread
    lateOpens,      \* open attempts of the current thread since cancelled
    expected,       \* <<axes, buttons>> the drained records call for (last write wins)
    afterClose      \* the current/last call directly followed a closeStream()

vars == <<fd, reconnecting, joinable, status, path, axes, buttons, errno, op, pc,
          arg, newFd, ret, bg, bgPath, bgNewFd, osTable, available, faults,
          drainEnd, cancelled, lateOpens, expected, afterClose>>

objVars == <<fd, reconnecting, joinable, status, path, axes, buttons>>
bgVars == <<bg, bgPath, bgNewFd>>
threadGhosts == <<cancelled, lateOpens>>
ghostVars == <<cancelled, lateOpens, expected, afterClose>>


\* ------------------------------------------------------------ OS helpers
IsOpen(d) == d \in Descriptors /\ osTable[d] # Closed
OpenDescriptors == {d \in Descriptors : osTable[d] # Closed}
FreeDescriptors == {d \in Descriptors : osTable[d] = Closed}
LowestFree == CHOOSE d \in FreeDescriptors : \A e \in FreeDescriptors : d <= e

\* open(path, O_RDONLY | O_NONBLOCK): the new descriptor, or -1
OsOpenResult(p) ==
    IF p \in available /\ FreeDescriptors # {} THEN LowestFree ELSE NoFd
OsOpenErrno(p) == IF p \in available THEN "EMFILE" ELSE "ENOENT"
OsOpenTable(p) ==
    IF OsOpenResult(p) # NoFd THEN [osTable EXCEPT ![OsOpenResult(p)] = p]
    ELSE osTable
\* close(d)
OsCloseTable(d) == IF IsOpen(d) THEN [osTable EXCEPT ![d] = Closed] ELSE osTable
OsCloseResult(d) == IF IsOpen(d) THEN 0 ELSE -1
OsCloseFaults(d) == IF IsOpen(d) THEN {} ELSE {"double_close"}

\* ------------------------------------------------------ status classifier
updateStatus(err) ==
    CASE err = "EBADF" -> INVALID_FILE_ERROR
      [] err = "EINVAL" -> INVALID_FILE_ERROR
      [] err = "EIO" -> IO_ERROR
      [] err = "EAGAIN" -> OK
      [] OTHER -> ERROR

getErr == status < OK
getStatus == status

\* Variant: the upper bound test is off by one; axes[6] is the storage of
\* buttons[0], the next member.
getAxisOffByOne(index) ==
    IF index > NumAxes \/ index < 0 THEN 0
    ELSE IF index = NumAxes THEN buttons[0] ELSE axes[index]

getAxis(index) == IF index >= NumAxes \/ index < 0 THEN 0 ELSE axes[index]
getButton(index) == IF index >= NumButtons \/ index < 0 THEN 0 ELSE buttons[index]

\* ---------------------------------------------------------------- Init
\* State at entry of Gamepad::Gamepad(path), after lines 15-16 have run; status
\* has no initialiser, so it starts with any value.
Init ==
    /\ fd = NoFd
    /\ reconnecting = FALSE
    /\ joinable = FALSE
    /\ status \in GamepadStatus
    /\ path = ""
    /\ axes = [i \in 0..(NumAxes - 1) |-> 0]
    /\ buttons = [i \in 0..(NumButtons - 1) |-> 0]
    /\ errno \in {"0", "EAGAIN"}
    /\ op = "none"
    /\ pc = "new"
    /\ arg = ""
    /\ newFd = NoFd
    /\ ret = 0
    /\ bg = "none"
    /\ bgPath = ""
    /\ bgNewFd = NoFd
    /\ osTable = [d \in Descriptors |-> Closed]
    /\ available \in SUBSET Paths
    /\ faults = {}
    /\ drainEnd = "none"
    /\ cancelled = FALSE
    /\ lateOpens = 0
    /\ expected = <<axes, buttons>>
    /\ afterClose = FALSE

\* ------------------------------------------------------- public entry points
\* Gamepad::Gamepad(path): openStream(path), then refresh()
Ctor(p) ==
    /\ pc = "new"
    /\ op' = "ctor"
    /\ arg' = p
    /\ pc' = "os_stop"
    /\ afterClose' = (op = "closeStream")
    /\ UNCHANGED <<objVars, errno, newFd, ret, bgVars, osTable, available, faults, drainEnd, threadGhosts, expected>>

CallOpenStream(p) ==
    /\ pc = "idle"
    /\ op' = "openStream"
    /\ arg' = p
    /\ pc' = "os_stop"
    /\ afterClose' = (op = "closeStream")
    /\ UNCHANGED <<objVars, errno, newFd, ret, bgVars, osTable, available, faults, drainEnd, threadGhosts, expected>>

CallCloseStream ==
    /\ pc = "idle"
    /\ op' = "closeStream"
    /\ pc' = "cs_stop"
    /\ afterClose' = (op = "closeStream")
    /\ UNCHANGED <<objVars, errno, arg, newFd, ret, bgVars, osTable, available, faults, drainEnd, threadGhosts, expected>>

\* Gamepad::~Gamepad(): closeStream()
Dtor ==
    /\ pc = "idle"
    /\ op' = "dtor"
    /\ pc' = "cs_stop"
    /\ afterClose' = (op = "closeStream")
    /\ UNCHANGED <<objVars, errno, arg, newFd, ret, bgVars, osTable, available, faults, drainEnd, threadGhosts, expected>>

CallRefresh ==
    /\ pc = "idle"
    /\ op' = "refresh"
    /\ pc' = "rf_check"
    /\ afterClose' = (op = "closeStream")
    /\ UNCHANGED <<objVars, errno, arg, newFd, ret, bgVars, osTable, available, faults, drainEnd, threadGhosts, expected>>

\* indices the getters are called with
GetIndices == {-1, 0, NumAxes, NumButtons, MaxWireNumber}

\* short v = getAxis(index) / getButton(index)
GetAxis(index) ==
    /\ pc = "idle"
    /\ op' = "getAxis"
    /\ ret' = getAxis(index)
    /\ afterClose' = (op = "closeStream")
    /\ UNCHANGED <<objVars, errno, pc, arg, newFd, bgVars, osTable, available, faults,
                   drainEnd, threadGhosts, expected>>

GetButton(index) ==
    /\ pc = "idle"
    /\ op' = "getButton"
    /\ ret' = getButton(index)
    /\ afterClose' = (op = "closeStream")
    /\ UNCHANGED <<objVars, errno, pc, arg, newFd, bgVars, osTable, available, faults,
                   drainEnd, threadGhosts, expected>>

\* --------------------------------------------------- stopReconnectionThread
BgRunning == bg \notin {"none", "done"}

\* Variant: stopReconnectionThread() joins without clearing the flag.
StopStoreNoClear(at, next) ==
    /\ pc = at
    /\ pc' = next
    /\ UNCHANGED <<objVars, errno, op, arg, newFd, ret, bgVars, osTable, available, faults,
                   drainEnd, ghostVars>>

\* reconnecting.store(false)
StopStore(at, next) ==
    /\ pc = at
    /\ reconnecting' = FALSE
    /\ cancelled' = (cancelled \/ (BgRunning /\ reconnecting))
    /\ pc' = next
    /\ UNCHANGED <<fd, joinable, status, path, axes, buttons, errno, op, arg, newFd, ret,
                   bgVars, osTable, available, faults, drainEnd, lateOpens, expected,
                   afterClose>>

\* Variant: the thread is detached instead of joined (no wait).
StopJoinDetach(at, next) ==
    /\ pc = at
    /\ joinable' = FALSE
    /\ pc' = next
    /\ UNCHANGED <<fd, reconnecting, status, path, axes, buttons, errno, op, arg, newFd, ret,
                   bgVars, osTable, available, faults, drainEnd, ghostVars>>

\* if (joinable()) join(): blocks until the thread body has returned
StopJoin(at, next) ==
    /\ pc = at
    /\ IF joinable
       THEN /\ bg = "done"
            /\ bg' = "none"
            /\ bgPath' = ""
            /\ bgNewFd' = NoFd
            /\ joinable' = FALSE
       ELSE UNCHANGED <<bgVars, joinable>>
    /\ pc' = next
    /\ UNCHANGED <<fd, reconnecting, status, path, axes, buttons, errno, op, arg, newFd, ret,
                   osTable, available, faults, drainEnd, ghostVars>>

\* ------------------------------------------------------ safeOpen / safeClose
\* Variant: a failed open keeps the old descriptor in fd, yet still closes it.
SafeOpenInstallKeepStale(nfd) ==
    /\ fd' = IF nfd >= 0 THEN nfd ELSE fd
    /\ osTable' = IF fd >= 0 THEN OsCloseTable(fd) ELSE osTable
    /\ faults' = faults \cup (IF fd >= 0 THEN OsCloseFaults(fd) ELSE {})

\* Variant: the previous descriptor is replaced but never closed.
SafeOpenInstallLeak(nfd) ==
    /\ fd' = nfd
    /\ UNCHANGED <<osTable, faults>>

\* critical section of safeOpen: install newFd, close the previous descriptor
SafeOpenInstall(nfd) ==
    /\ fd' = nfd
    /\ osTable' = IF fd >= 0 THEN OsCloseTable(fd) ELSE osTable
    /\ faults' = faults \cup (IF fd >= 0 THEN OsCloseFaults(fd) ELSE {})

\* Variant: safeClose calls close(fd) even when fd is 'none'.
SafeCloseSectionNoGuard ==
    /\ fd' = NoFd
    /\ osTable' = OsCloseTable(fd)
    /\ faults' = faults \cup OsCloseFaults(fd)
    /\ ret' = OsCloseResult(fd)

\* critical section of safeClose
SafeCloseSection ==
    /\ fd' = NoFd
    /\ osTable' = IF fd >= 0 THEN OsCloseTable(fd) ELSE osTable
    /\ faults' = faults \cup (IF fd >= 0 THEN OsCloseFaults(fd) ELSE {})
    /\ ret' = IF fd >= 0 THEN OsCloseResult(fd) ELSE 0

\* ------------------------------------------------------------- openStream
\* this->path = path; then the open() call of safeOpen
OpenStreamOpen ==
    /\ pc = "os_open"
    /\ path' = arg
    /\ newFd' = OsOpenResult(arg)
    /\ osTable' = OsOpenTable(arg)
    /\ errno' = IF OsOpenResult(arg) = NoFd THEN OsOpenErrno(arg) ELSE errno
    /\ pc' = "os_install"
    /\ UNCHANGED <<fd, reconnecting, joinable, status, axes, buttons, op, arg, ret,
                   bgVars, available, faults, drainEnd, ghostVars>>

\* Variant: the constructor returns after openStream(), without refresh().
OpenStreamInstallNoRefresh ==
    /\ pc = "os_install"
    /\ SafeOpenInstall(newFd)
    /\ ret' = newFd
    /\ newFd' = NoFd
    /\ arg' = ""
    /\ pc' = "idle"
    /\ UNCHANGED <<reconnecting, joinable, status, path, axes, buttons, errno, op,
                   bgVars, available, drainEnd, ghostVars>>

\* locked part of safeOpen, then return newFd; the constructor goes on to refresh()
OpenStreamInstall ==
    /\ pc = "os_install"
    /\ SafeOpenInstall(newFd)
    /\ ret' = newFd
    /\ newFd' = NoFd
    /\ arg' = ""
    /\ pc' = IF op = "ctor" THEN "rf_check" ELSE "idle"
    /\ UNCHANGED <<reconnecting, joinable, status, path, axes, buttons, errno, op,
                   bgVars, available, drainEnd, ghostVars>>

\* ------------------------------------------------------------ closeStream
\* Variant: closeStream() also forgets the recorded path.
CloseStreamCloseForgetsPath ==
    /\ pc = "cs_close"
    /\ SafeCloseSection
    /\ path' = ""
    /\ pc' = IF op = "dtor" THEN "destroyed" ELSE "idle"
    /\ UNCHANGED <<reconnecting, joinable, status, axes, buttons, errno, op, arg,
                   newFd, bgVars, available, drainEnd, ghostVars>>

CloseStreamClose ==
    /\ pc = "cs_close"
    /\ SafeCloseSection
    /\ pc' = IF op = "dtor" THEN "destroyed" ELSE "idle"
    /\ UNCHANGED <<reconnecting, joinable, status, path, axes, buttons, errno, op, arg,
                   newFd, bgVars, available, drainEnd, ghostVars>>

\* ----------------------------------------------------------------- refresh
\* Variant: refresh() goes on to read whatever the flag says.
RefreshCheckNoGuard ==
    /\ pc = "rf_check"
    /\ pc' = "rf_stop"
    /\ UNCHANGED <<objVars, errno, op, arg, newFd, ret, bgVars, osTable, available,
                   faults, drainEnd, ghostVars>>

\* Variant: refresh() does not call stopReconnectionThread() before reading.
RefreshCheckNoStop ==
    /\ pc = "rf_check"
    /\ pc' = IF reconnecting THEN "idle" ELSE "rf_read"
    /\ UNCHANGED <<objVars, errno, op, arg, newFd, ret, bgVars, osTable, available,
                   faults, drainEnd, ghostVars>>

\* if (!reconnecting.load()) stopReconnectionThread(); else return;
RefreshCheck ==
    /\ pc = "rf_check"
    /\ pc' = IF reconnecting THEN "idle" ELSE "rf_stop"
    /\ UNCHANGED <<objVars, errno, op, arg, newFd, ret, bgVars, osTable, available,
                   faults, drainEnd, ghostVars>>

\* what buttons[number] = value / axes[number] = value does to the two arrays.
\* std::array::operator[] does not check the index: a store past the end of
\* axes lands in buttons (the next member) when it is within 15 elements of
\* it, or is not visible in either array; a store past the end of buttons is
\* outside the arrays.
StoreOutcomes(ev) ==
    CASE ev.type = 1 /\ ev.number < NumButtons ->
            {<<axes, [buttons EXCEPT ![ev.number] = ev.value]>>}
      [] ev.type = 1 /\ ev.number >= NumButtons ->
            {<<axes, buttons>>}
      [] ev.type = 2 /\ ev.number < NumAxes ->
            {<<[axes EXCEPT ![ev.number] = ev.value], buttons>>}
      [] ev.type = 2 /\ ev.number >= NumAxes /\ ev.number - NumAxes < NumButtons ->
            {<<axes, buttons>>, <<axes, [buttons EXCEPT ![ev.number - NumAxes] = ev.value]>>}
      [] ev.type = 2 /\ ev.number - NumAxes >= NumButtons ->
            {<<axes, buttons>>}
      [] OTHER -> {<<axes, buttons>>}

OutOfBounds(ev) ==
    \/ ev.type = 1 /\ ev.number >= NumButtons
    \/ ev.type = 2 /\ ev.number >= NumAxes

\* safeRead returned sizeof(JSEvent) bytes: one turn of the drain loop
ReadEvent(ev) ==
    /\ pc = "rf_read"
    /\ IsOpen(fd)
    /\ \E out \in StoreOutcomes(ev) :
          /\ axes' = out[1]
          /\ buttons' = out[2]
    /\ faults' = faults \cup (IF OutOfBounds(ev) THEN {"oob_write"} ELSE {})
    /\ expected' =
          IF ev.type = 1 /\ ev.number < NumButtons
          THEN <<expected[1], [expected[2] EXCEPT ![ev.number] = ev.value]>>
          ELSE IF ev.type = 2 /\ ev.number < NumAxes
          THEN <<[expected[1] EXCEPT ![ev.number] = ev.value], expected[2]>>
          ELSE expected
    /\ UNCHANGED <<fd, reconnecting, joinable, status, path, errno, op, pc, arg, newFd, ret,
                   bgVars, osTable, available, drainEnd, threadGhosts, afterClose>>

\* safeRead returned -1: read() stored its error code in errno
ReadError(e) ==
    /\ pc = "rf_read"
    /\ IF IsOpen(fd) THEN e \in ReadErrnos ELSE e = "EBADF"
    /\ errno' = e
    /\ faults' = faults \cup (IF fd >= 0 /\ ~IsOpen(fd) THEN {"read_closed"} ELSE {})
    /\ drainEnd' = e
    /\ pc' = "rf_status"
    /\ UNCHANGED <<objVars, op, arg, newFd, ret, bgVars, osTable, available, ghostVars>>

\* safeRead returned 0 (end of file): errno keeps its previous value
ReadEof ==
    /\ pc = "rf_read"
    /\ IsOpen(fd)
    /\ drainEnd' = "EOF"
    /\ pc' = "rf_status"
    /\ UNCHANGED <<objVars, errno, op, arg, newFd, ret, bgVars, osTable, available,
                   faults, ghostVars>>

\* Variant: refresh() classifies but never starts the reconnection thread.
RefreshStatusNoStart ==
    /\ pc = "rf_status"
    /\ status' = updateStatus(errno)
    /\ pc' = "idle"
    /\ drainEnd' = "none"
    /\ expected' = <<axes, buttons>>
    /\ UNCHANGED <<fd, reconnecting, joinable, path, axes, buttons, errno, op, arg, newFd,
                   ret, bgVars, osTable, available, faults, threadGhosts, afterClose>>

\* int err = errno; updateStatus(err); if (getErr()) startReconnectionThread();
RefreshStatus ==
    /\ pc = "rf_status"
    /\ status' = updateStatus(errno)
    /\ pc' = IF updateStatus(errno) < OK THEN "rf_start" ELSE "idle"
    /\ drainEnd' = "none"
    /\ expected' = <<axes, buttons>>
    /\ UNCHANGED <<fd, reconnecting, joinable, path, axes, buttons, errno, op, arg, newFd,
                   ret, bgVars, osTable, available, faults, threadGhosts, afterClose>>

\* startReconnectionThread(): assigning to a std::thread that is still
\* joinable calls std::terminate
StartReconnectionThread ==
    /\ pc = "rf_start"
    /\ reconnecting' = TRUE
    /\ IF reconnecting
       THEN /\ pc' = "idle"
            /\ UNCHANGED <<joinable, bgVars, faults, threadGhosts>>
       ELSE IF joinable
       THEN /\ pc' = "terminated"
            /\ faults' = faults \cup {"terminate"}
            /\ UNCHANGED <<joinable, bgVars, threadGhosts>>
       ELSE /\ pc' = "idle"
            /\ joinable' = TRUE
            /\ bg' = "open"
            /\ bgPath' = path
            /\ bgNewFd' = NoFd
            /\ cancelled' = FALSE
            /\ lateOpens' = 0
            /\ UNCHANGED faults
    /\ UNCHANGED <<fd, status, path, axes, buttons, errno, op, arg, newFd, ret, osTable,
                   available, drainEnd, expected, afterClose>>

\* ------------------------------------------------------ reconnection thread
\* the open() call of safeOpen(path)
BgOpen ==
    /\ bg = "open"
    /\ bgNewFd' = OsOpenResult(bgPath)
    /\ osTable' = OsOpenTable(bgPath)
    /\ lateOpens' = IF cancelled /\ lateOpens < MaxLateOpens THEN lateOpens + 1 ELSE lateOpens
    /\ bg' = "install"
    /\ UNCHANGED <<objVars, errno, op, pc, arg, newFd, ret, bgPath, available, faults,
                   drainEnd, cancelled, expected, afterClose>>

\* locked part of safeOpen(path), then the test safeOpen(path) < 0
BgInstall ==
    /\ bg = "install"
    /\ SafeOpenInstall(bgNewFd)
    /\ bg' = IF bgNewFd < 0 THEN "check" ELSE "exit"
    /\ UNCHANGED <<reconnecting, joinable, status, path, axes, buttons, errno, op, pc, arg,
                   newFd, ret, bgPath, bgNewFd, available, drainEnd, ghostVars>>

\* Variant: the retry loop never looks at the flag.
BgCheckIgnoresFlag ==
    /\ bg = "check"
    /\ bg' = "sleep"
    /\ UNCHANGED <<objVars, errno, op, pc, arg, newFd, ret, bgPath, bgNewFd, osTable,
                   available, faults, drainEnd, ghostVars>>

\* && this->reconnecting.load()
BgCheck ==
    /\ bg = "check"
    /\ bg' = IF reconnecting THEN "sleep" ELSE "exit"
    /\ UNCHANGED <<objVars, errno, op, pc, arg, newFd, ret, bgPath, bgNewFd, osTable,
                   available, faults, drainEnd, ghostVars>>

\* std::this_thread::sleep_for(250ms)
BgSleep ==
    /\ bg = "sleep"
    /\ bg' = "open"
    /\ UNCHANGED <<objVars, errno, op, pc, arg, newFd, ret, bgPath, bgNewFd, osTable,
                   available, faults, drainEnd, ghostVars>>

\* Variant: the thread also resets status to OK after a successful reopen.
BgExitSetsStatus ==
    /\ bg = "exit"
    /\ reconnecting' = FALSE
    /\ status' = IF bgNewFd >= 0 THEN OK ELSE status
    /\ bg' = "done"
    /\ UNCHANGED <<fd, joinable, path, axes, buttons, errno, op, pc, arg, newFd, ret,
                   bgPath, bgNewFd, osTable, available, faults, drainEnd, ghostVars>>

\* Variant: the thread body returns without clearing reconnecting.
BgExitKeepsFlag ==
    /\ bg = "exit"
    /\ bg' = "done"
    /\ UNCHANGED <<objVars, errno, op, pc, arg, newFd, ret, bgPath, bgNewFd, osTable,
                   available, faults, drainEnd, ghostVars>>

\* this->reconnecting.store(false); the thread body returns
BgExit ==
    /\ bg = "exit"
    /\ reconnecting' = FALSE
    /\ bg' = "done"
    /\ UNCHANGED <<fd, joinable, status, path, axes, buttons, errno, op, pc, arg, newFd, ret,
                   bgPath, bgNewFd, osTable, available, faults, drainEnd, ghostVars>>

\* ------------------------------------------------------------ environment
\* the device node appears (plug) or disappears (unplug)
Plug(p) ==
    /\ p \notin available
    /\ available' = available \cup {p}
    /\ UNCHANGED <<objVars, errno, op, pc, arg, newFd, ret, bgVars, osTable, faults, drainEnd, ghostVars>>

Unplug(p) ==
    /\ p \in available
    /\ available' = available \ {p}
    /\ UNCHANGED <<objVars, errno, op, pc, arg, newFd, ret, bgVars, osTable, faults, drainEnd, ghostVars>>

\* ------------------------------------------------------------------- Next
Foreground ==
    \/ \E p \in Paths : Ctor(p)
    \/ \E p \in Paths : CallOpenStream(p)
    \/ CallCloseStream
    \/ Dtor
    \/ CallRefresh
    \/ StopStore("os_stop", "os_join")
    \/ StopJoin("os_join", "os_open")
    \/ OpenStreamOpen
    \/ OpenStreamInstall
    \/ StopStore("cs_stop", "cs_join")
    \/ StopJoin("cs_join", "cs_close")
    \/ CloseStreamClose
    \/ RefreshCheck
    \/ StopStore("rf_stop", "rf_join")
    \/ StopJoin("rf_join", "rf_read")
    \/ \E ev \in JSEvent : ReadEvent(ev)
    \/ \E e \in Errnos : ReadError(e)
    \/ ReadEof
    \/ RefreshStatus
    \/ StartReconnectionThread

Background == BgOpen \/ BgInstall \/ BgCheck \/ BgSleep \/ BgExit

Environment == \E p \in Paths : Plug(p) \/ Unplug(p)

Next == Foreground \/ Background \/ Environment

Spec == Init /\ [][Next]_vars

\* The polling caller of main.cpp: construct, then refresh() and read the
\* cached values, with the reconnection thread running alongside.
Construct == \E p \in Paths : Ctor(p)

Poll ==
    \/ CallRefresh
    \/ StopStore("os_stop", "os_join")
    \/ StopJoin("os_join", "os_open")
    \/ OpenStreamOpen
    \/ OpenStreamInstall
    \/ RefreshCheck
    \/ StopStore("rf_stop", "rf_join")
    \/ StopJoin("rf_join", "rf_read")
    \/ \E ev \in JSEvent : ReadEvent(ev)
    \/ \E e \in Errnos : ReadError(e)
    \/ ReadEof
    \/ RefreshStatus
    \/ StartReconnectionThread

Getters == \E index \in GetIndices : GetAxis(index) \/ GetButton(index)

NextGet == Construct \/ Poll \/ Getters \/ Background

SpecGet == Init /\ [][NextGet]_vars

\* ------------------------------------------------ scheduling and liveness
\* Any caller, with reads that end every drain at once (no records): the
\* running call and the reconnection thread are both scheduled fairly.
Calls ==
    \/ Construct
    \/ \E p \in Paths : CallOpenStream(p)
    \/ CallCloseStream
    \/ Dtor
    \/ CallRefresh

Run ==
    \/ StopStore("os_stop", "os_join")
    \/ StopJoin("os_join", "os_open")
    \/ OpenStreamOpen
    \/ OpenStreamInstall
    \/ StopStore("cs_stop", "cs_join")
    \/ StopJoin("cs_join", "cs_close")
    \/ CloseStreamClose
    \/ RefreshCheck
    \/ StopStore("rf_stop", "rf_join")
    \/ StopJoin("rf_join", "rf_read")
    \/ \E e \in Errnos : ReadError(e)
    \/ ReadEof
    \/ RefreshStatus
    \/ StartReconnectionThread

NextJoin == Calls \/ Run \/ Background \/ Environment

SpecJoin == Init /\ [][NextJoin]_vars /\ WF_vars(Run) /\ WF_vars(Background)

\* A caller that only polls, a device node that appears and then stays, and
\* reads on an open descriptor that report in-range records or would-block.
RecoverEvents == {ev \in JSEvent : ev.type # 3 /\ ~OutOfBounds(ev) /\ ev.value = 1}

ReadWouldBlock == \E e \in {"EAGAIN", "EBADF"} : ReadError(e)

PollHealthy ==
    \/ StopStore("os_stop", "os_join")
    \/ StopJoin("os_join", "os_open")
    \/ OpenStreamOpen
    \/ OpenStreamInstall
    \/ RefreshCheck
    \/ StopStore("rf_stop", "rf_join")
    \/ StopJoin("rf_join", "rf_read")
    \/ \E ev \in RecoverEvents : ReadEvent(ev)
    \/ ReadWouldBlock
    \/ RefreshStatus
    \/ StartReconnectionThread

Appear == \E p \in Paths : Plug(p)

NextRecover == Construct \/ CallRefresh \/ PollHealthy \/ Background \/ Appear

SpecRecover ==
    /\ Init /\ [][NextRecover]_vars
    /\ WF_vars(CallRefresh) /\ WF_vars(PollHealthy) /\ WF_vars(ReadWouldBlock)
    /\ WF_vars(Background)
    /\ \A p \in Paths : WF_vars(Plug(p))

TypeOK ==
    /\ fd \in {NoFd} \cup Descriptors
    /\ status \in GamepadStatus
    /\ errno \in Errnos
    /\ faults \subseteq {"oob_write", "read_closed", "double_close", "terminate"}

\* ================================================================ claims
Returned == pc \in {"idle", "destroyed"}

\* C1 (as stated): when a public call returns, either the descriptor is open and
\* status is OK, or the descriptor is 'none' and status is an error; after
\* closeStream() returns the handle is in an error state.
C1_OpenIffOk ==
    [][pc # pc' /\ Returned' =>
         (\/ (IsOpen(fd) /\ status = OK)
          \/ (fd = NoFd /\ status # OK))']_vars

\* C2: the fd field never holds a descriptor the OS has already closed, no read
\* is issued on a closed descriptor and no descriptor is closed twice, whatever
\* the interleaving of the reconnection thread with foreground calls.
C2_NoClosedDescriptor ==
    /\ fd >= 0 => IsOpen(fd)
    /\ "read_closed" \notin faults
    /\ "double_close" \notin faults

\* C2 witness: the thread has swapped in a new descriptor (closing descriptor 0)
\* while a foreground openStream/closeStream is waiting in join.
C2_Witness ==
    /\ bg = "exit"
    /\ pc \in {"os_join", "cs_join"}
    /\ fd = bgNewFd
    /\ fd > 0
    /\ ~IsOpen(0)

\* C3: openStream, closeStream and the destructor touch the descriptor only
\* once reconnecting is cleared and the thread has been joined; after
\* closeStream/destructor no thread exists and fd is 'none'; after openStream(p)
\* the installed descriptor is the one that call opened for p.
C3_SupersedeJoins ==
    /\ pc \in {"os_open", "os_install", "cs_close"} =>
          bg = "none" /\ ~joinable /\ ~reconnecting
    /\ (pc = "idle" /\ op = "closeStream") \/ pc = "destroyed" =>
          bg = "none" /\ ~joinable /\ fd = NoFd
    /\ pc = "idle" /\ op = "openStream" =>
          /\ bg = "none" /\ ~joinable
          /\ fd = ret
          /\ fd >= 0 => osTable[fd] = path

\* C3 witness: openStream returned with its own descriptor after cancelling a
\* retry that had made one more open attempt once the flag was cleared.
C3_Witness ==
    /\ pc = "idle" /\ op = "openStream"
    /\ cancelled /\ lateOpens = 1
    /\ fd >= 0 /\ osTable[fd] = path

\* C4: a std::thread that is still joinable is never overwritten, a thread
\* exists exactly when the thread object is joinable, and
\* startReconnectionThread is entered only with the previous thread joined.
C4_AtMostOneTask ==
    /\ "terminate" \notin faults
    /\ joinable <=> bg # "none"
    /\ pc = "rf_start" => ~joinable /\ bg = "none"

\* C4 witness: a thread has just been created although the last
\* openStream/constructor open failed and fd is open, i.e. an earlier thread
\* installed fd and was joined before this one was created.
C4_Witness ==
    /\ pc = "idle" /\ op = "refresh"
    /\ bg = "open" /\ bgNewFd = NoFd /\ joinable
    /\ ret = NoFd /\ IsOpen(fd)

\* C5: a refresh() that finds reconnecting set returns at once, leaving the
\* object, errno and the OS untouched; the drain loop runs only when no
\* reconnection thread exists (finished and joined).
C5_FrozenWhileReconnecting ==
    /\ [](pc \in {"rf_read", "rf_status"} => bg = "none" /\ ~joinable)
    /\ [][pc = "rf_check" /\ reconnecting /\ pc' # pc =>
            /\ pc' = "idle"
            /\ UNCHANGED <<fd, status, path, axes, buttons, errno, osTable, faults>>]_vars

\* C5 witness: refresh() is at its flag test while a retry is sleeping.
C5_Witness ==
    /\ pc = "rf_check" /\ op = "refresh"
    /\ reconnecting /\ bg = "sleep"

\* C6 (as stated): a drained record whose number is outside its target array
\* changes no element of axes or buttons and causes no out-of-bounds store.
C6_OutOfBoundsIgnored ==
    [][\A ev \in JSEvent : OutOfBounds(ev) /\ ReadEvent(ev) =>
          /\ UNCHANGED <<axes, buttons>>
          /\ "oob_write" \notin faults']_vars

\* C7 (as stated): when the thread finishes after a successful reopen, status
\* is OK at the moment reconnecting becomes false.
C7_StatusOkOnReconnect ==
    [][bg = "exit" /\ bg' = "done" /\ bgNewFd >= 0 => status' = OK]_vars

\* C7 (amended): when the thread finishes after a successful reopen, the new
\* descriptor is installed and open and reconnecting becomes false, but status
\* keeps the error value that started the retry; status changes only in
\* refresh(), when it classifies the end of a drain.
C7_StatusLeftToRefresh ==
    /\ [][bg = "exit" /\ bg' = "done" /\ bgNewFd >= 0 =>
            /\ fd' = bgNewFd /\ IsOpen(fd)'
            /\ ~reconnecting'
            /\ status' = status /\ status' < OK]_vars
    /\ [][status' # status => pc = "rf_status"]_vars

\* C7 witness: the thread has finished after a successful reopen.
C7_Witness ==
    /\ bg = "done" /\ bgNewFd >= 0 /\ fd = bgNewFd
    /\ ~reconnecting /\ status < OK

\* C8 (as stated): once a foreground call has cleared reconnecting, the thread
\* makes no further open attempt.
C8_NoOpenAfterCancel == lateOpens = 0

\* C8 (amended): the thread tests the flag only after a failed attempt, so once
\* a foreground call has cleared reconnecting it makes at most one further open
\* attempt (and installs at most one further descriptor) before it exits.
C8_AtMostOneLateOpen ==
    /\ lateOpens <= 1
    /\ cancelled /\ lateOpens = 1 => bg \in {"install", "check", "exit", "done", "none"}
    /\ cancelled /\ bg = "sleep" => lateOpens = 0

\* C8 witness: the thread opened and installed a descriptor after the flag was
\* cleared, then finished.
C8_Witness ==
    /\ cancelled /\ lateOpens = 1
    /\ bg = "done" /\ bgNewFd >= 0 /\ fd = bgNewFd

\* C9 (as stated): when openStream fails to open the path, on return the
\* descriptor is 'none' and status is an error value.
C9_FailedOpenSetsError ==
    pc = "idle" /\ op = "openStream" /\ ret < 0 => fd = NoFd /\ status < OK

\* C10 (as stated): refresh() sets status to the classification of the outcome
\* that ended the drain: EAGAIN -> OK, EBADF and EINVAL -> INVALID_FILE_ERROR,
\* EIO -> IO_ERROR, anything else (a read of zero bytes included) -> ERROR.
C10_ClassifiesDrainEnd ==
    [][pc = "rf_status" /\ pc' # pc =>
         status' = CASE drainEnd = "EAGAIN" -> OK
                     [] drainEnd = "EBADF" -> INVALID_FILE_ERROR
                     [] drainEnd = "EINVAL" -> INVALID_FILE_ERROR
                     [] drainEnd = "EIO" -> IO_ERROR
                     [] OTHER -> ERROR]_vars

\* C11 (as stated): when the drain loop of refresh() has ended, every in-bounds
\* getAxis(i)/getButton(i) is the value of the last drained record of that type
\* and index, or the value cached before the refresh if there was none.
C11_LastWriteWins ==
    pc = "rf_status" =>
        /\ \A i \in 0..(NumAxes - 1) : getAxis(i) = expected[1][i]
        /\ \A i \in 0..(NumButtons - 1) : getButton(i) = expected[2][i]

\* C12: when the constructor has returned after failing to open its path,
\* getErr() is true and a reconnection thread exists; either the retry is still
\* in progress (reconnecting set, fd 'none' until the thread installs a
\* descriptor) or the thread has finished after opening the path.
C12_FailedCtorRetries ==
    pc = "idle" /\ op = "ctor" /\ ret < 0 =>
        /\ getErr
        /\ joinable /\ bgPath = path
        /\ \/ reconnecting /\ BgRunning
           \/ ~reconnecting /\ bg = "done" /\ bgNewFd >= 0 /\ fd = bgNewFd
        /\ bg \in {"open", "install", "check", "sleep"} => fd = NoFd
        /\ fd >= 0 => osTable[fd] = path

\* C12 witness: the constructor has returned, the path is still missing and
\* the thread sleeps between two attempts.
C12_Witness ==
    /\ pc = "idle" /\ op = "ctor" /\ ret < 0
    /\ status = INVALID_FILE_ERROR /\ fd = NoFd
    /\ reconnecting /\ bg = "sleep" /\ path \notin available

\* C14: a closeStream() called directly after a closeStream() starts from
\* fd 'none' with no thread, changes nothing observable (fd, status,
\* reconnecting, path, axes, buttons), closes no descriptor and returns 0.
C14_CloseIdempotent ==
    /\ [](op = "closeStream" /\ afterClose =>
            fd = NoFd /\ ~reconnecting /\ bg = "none" /\ ~joinable)
    /\ [][op = "closeStream" /\ afterClose /\ op' = op /\ pc' # pc =>
            /\ UNCHANGED <<fd, status, reconnecting, joinable, path, axes, buttons,
                           osTable, faults, bg>>
            /\ pc' = "idle" => ret' = 0]_vars

\* C14 witness: the second of two closeStream() calls in a row has returned.
C14_Witness ==
    /\ pc = "idle" /\ op = "closeStream" /\ afterClose
    /\ fd = NoFd /\ ret = 0 /\ buttons[0] # 0

\* C15 (as stated): at any instant at most one descriptor opened by the handle
\* is open.
C15_AtMostOneOpen == Cardinality(OpenDescriptors) <= 1

\* C15 (amended): safeOpen opens the new descriptor before it closes the
\* previous one, so two descriptors of the handle are open between open() and
\* the locked swap; never more than two, the open ones are fd and the newFd of
\* the safeOpen in progress, and outside safeOpen only fd is open.
C15_AtMostTwoOpen ==
    /\ Cardinality(OpenDescriptors) <= 2
    /\ OpenDescriptors \subseteq
          ({fd} \cup (IF pc = "os_install" THEN {newFd} ELSE {})
                \cup (IF bg = "install" THEN {bgNewFd} ELSE {}))
    /\ ~(pc = "os_install" /\ bg = "install")

\* C15 witness: the thread has opened a second descriptor and has not yet
\* swapped it in.
C15_Witness ==
    /\ bg = "install" /\ bgNewFd >= 0 /\ IsOpen(fd)
    /\ bgNewFd # fd
    /\ Cardinality(OpenDescriptors) = 2

\* C17: when a refresh() that performed I/O returns with an error status, the
\* reconnection thread has been created on the recorded path and reconnecting
\* is set; when it returns with status OK, no thread exists and reconnecting is
\* clear.
C17_ErrorStartsSupervisor ==
    [][(pc = "rf_status" \/ pc = "rf_start") /\ pc' = "idle" =>
         IF status' < OK
         THEN reconnecting' /\ joinable' /\ bg' = "open" /\ bgPath' = path'
         ELSE ~reconnecting' /\ ~joinable' /\ bg' = "none"]_vars

\* C17 witness: refresh() has returned after an I/O failure on an open
\* descriptor and the thread it created has not run yet.
C17_Witness ==
    /\ pc = "idle" /\ op = "refresh"
    /\ status = IO_ERROR /\ IsOpen(fd)
    /\ reconnecting /\ joinable /\ bg = "open" /\ bgNewFd = NoFd

\* C18 (as stated): the status a refresh() sets is the classification of what
\* its final read reported, never of an error code left in errno by an earlier
\* read, open or close; a final read of zero bytes reports no error code.
C18_StatusFromFinalRead ==
    [][pc = "rf_status" /\ pc' # pc =>
         status' = updateStatus(IF drainEnd = "EOF" THEN "0" ELSE drainEnd)]_vars

\* C20: a refresh() called directly after closeStream() is not frozen: it reads
\* on fd 'none', the read reports EBADF, status becomes INVALID_FILE_ERROR and
\* a reconnection thread is created on the last recorded path, which can then
\* install a descriptor for that path without any openStream() call.
C20_CloseNotTerminal ==
    op = "refresh" /\ afterClose =>
        /\ pc = "rf_check" => ~reconnecting
        /\ pc \in {"rf_check", "rf_stop", "rf_join", "rf_read"} => fd = NoFd /\ bg = "none"
        /\ pc = "rf_status" => drainEnd = "EBADF" /\ errno = "EBADF"
        /\ pc = "rf_start" => status = INVALID_FILE_ERROR /\ ~reconnecting
        /\ pc = "idle" =>
              /\ status = INVALID_FILE_ERROR
              /\ joinable /\ bgPath = path /\ path \in Paths
              /\ reconnecting \/ (bg = "done" /\ bgNewFd >= 0)
              /\ fd >= 0 => fd = bgNewFd /\ osTable[fd] = path

\* C20 witness: after closeStream() and one refresh(), the thread has reopened
\* the recorded path and finished.
C20_Witness ==
    /\ pc = "idle" /\ op = "refresh" /\ afterClose
    /\ bg = "done" /\ IsOpen(fd) /\ osTable[fd] = path
    /\ ~reconnecting

\* C16: getAxis(index) with index < 0 or index >= 6 and getButton(index) with
\* index < 0 or index >= 15 return 0, whatever the arrays hold.
C16_OutOfRangeReadsZero ==
    [][\A index \in GetIndices :
          /\ (index < 0 \/ index >= NumAxes) /\ GetAxis(index) => ret' = 0
          /\ (index < 0 \/ index >= NumButtons) /\ GetButton(index) => ret' = 0]_vars

\* C16 witness: getAxis returned 0 although axes[0], the only in-range index it
\* is called with, and buttons[0], the element stored right after axes, are
\* both non-zero.
C16_Witness ==
    /\ pc = "idle" /\ op = "getAxis" /\ ret = 0
    /\ axes[0] # 0 /\ buttons[0] # 0

JoinPcs == {"os_join", "cs_join", "rf_join"}

\* C13: with the path eventually openable, healthy reads and a caller that
\* keeps calling refresh(), an error state with a retry in progress leads to
\* reconnecting false and getErr() false, and every in-range record drained
\* is stored in its element.
C13_Recovers ==
    /\ (reconnecting /\ getErr) ~> (~reconnecting /\ ~getErr)
    /\ [][\A ev \in RecoverEvents : ReadEvent(ev) =>
            (IF ev.type = 1 THEN buttons'[ev.number] ELSE axes'[ev.number]) = ev.value]_vars

\* C13 witness: the constructor's open failed, the thread reopened the path and
\* was joined, status is OK again and a record fed afterwards is cached.
C13_Witness ==
    /\ pc = "idle" /\ op = "refresh" /\ ret < 0
    /\ ~reconnecting /\ ~getErr /\ bg = "none"
    /\ IsOpen(fd) /\ buttons[0] = 1

\* C19: a call that waits in join() for the reconnection thread eventually
\* returns, path openable or not, when the thread is scheduled fairly.
C19_JoinReturns == (pc \in JoinPcs) ~> Returned

\* C19 witness: closeStream() waits in join() while the cancelled thread is
\* still asleep and the path cannot be opened.
C19_Witness ==
    /\ pc = "cs_join" /\ joinable /\ cancelled
    /\ bg = "sleep" /\ bgPath \notin available

====
